---- MODULE Spec2Model ----
(***************************************************************************)
(* Model of the blog's post views (posts/views.py): the permission checks  *)
(* of the list, detail, create, update, delete and download views and the  *)
(* storage writes they perform inside transaction.atomic().                *)
(*                                                                         *)
(* The relational store is modelled as a committed copy (posts, docs) that *)
(* every request reads, and a working copy (txPosts, txDocs) owned by the  *)
(* one request that holds the write lock: the first write of an atomic     *)
(* block takes the lock (the row lock of the post row, or the database     *)
(* lock of SQLite) and the end of the block commits and releases it.       *)
(***************************************************************************)
EXTENDS Integers, Sequences, FiniteSets, TLC

\* ---------------------------------------------------------------- bounds
MaxOps == 3        \* write requests admitted and files lost in one behaviour
MaxInflight == 2   \* requests in flight at once under SpecConc
MaxNew == 1        \* valid new document forms in one formset
MaxPosts == 2      \* Post rows ever inserted

\* ------------------------------------------------------------- identities
\* The accounts of AUTH_USER_MODEL: two staff users, one superuser who is
\* not staff, and the unauthenticated caller (AnonymousUser).
Users == {"a", "b", "s"}
Anon == "anon"
Callers == Users \cup {Anon}

is_authenticated(u) == u # Anon
is_staff(u) == u \in {"a", "b"}
is_superuser(u) == u = "s"

\* ------------------------------------------------------------------ data
PostIds == 1..MaxPosts
DocIds == 1..(MaxOps * (MaxNew + 1))
Texts == {<<"t1", "c1">>, <<"t2", "c2">>}

NoPost == [title |-> "", content |-> "", author |-> Anon, date_posted |-> 0,
           is_public |-> FALSE, shared_with |-> {}]
NoForm == [title |-> "", content |-> "", is_public |-> FALSE, shared_with |-> {}]

\* PostForm: fields title, content, is_public, shared_with; the queryset of
\* shared_with excludes the requesting user, so a valid form never names them.
\* The forms submitted share a post with users who are not superusers.
PostForm(u) ==
    { [title |-> t[1], content |-> t[2], is_public |-> pub, shared_with |-> sw] :
        t \in Texts, pub \in BOOLEAN,
        sw \in SUBSET ({x \in Users : ~is_superuser(x)} \ {u}) }

\* The fields a saved post takes from the form.
FormFields(p) ==
    [title |-> p.title, content |-> p.content, is_public |-> p.is_public,
     shared_with |-> p.shared_with]

VARIABLES
    posts,      \* committed Post rows: id -> row (with its shared_with set)
    docs,       \* committed Document rows: id -> [post, file, description]
    txPosts,    \* Post rows as the lock holder sees them
    txDocs,     \* Document rows as the lock holder sees them
    lock,       \* the slot whose atomic block holds the write lock, or 0
    nextPost,   \* next Post id
    nextDoc,    \* next Document id
    media,      \* file storage: path -> bytes
    clock,      \* the time of the last auto_now_add
    req,        \* request slot -> the request in flight or its response; its
                \* docset is the document set the request means the post to
                \* have (the documents it had when loaded, less the deleted,
                \* plus the new ones)
    ops         \* write requests admitted and files lost so far

vars == <<posts, docs, txPosts, txDocs, lock, nextPost, nextDoc, media, clock, req, ops>>

Slots == 1..MaxInflight

Idle == [pc |-> "idle", kind |-> "none", user |-> Anon, pk |-> 0,
         form |-> NoForm, formset |-> "none", docset |-> {}, outcome |-> "none", to |-> "none",
         post |-> NoPost, rows |-> <<>>, bytes |-> <<>>]

Init ==
    /\ posts = <<>>
    /\ docs = <<>>
    /\ txPosts = <<>>
    /\ txDocs = <<>>
    /\ lock = 0
    /\ nextPost = 1
    /\ nextDoc = 1
    /\ media = <<>>
    /\ clock = 0
    /\ req = [r \in Slots |-> Idle]
    /\ ops = 0

\* ------------------------------------------------------------ the store
Put(f, k, v) == [i \in DOMAIN f \cup {k} |-> IF i = k THEN v ELSE f[i]]
Drop(f, ks) == [i \in DOMAIN f \ ks |-> f[i]]

\* Document rows of one post (the related manager post.documents).
documents(D, pk) == {d \in DOMAIN D : D[d].post = pk}

\* upload_to='post_documents/': every upload gets a path of its own.
upload_to(d) == <<"post_documents", d>>
FileBytes(d) == <<"bytes", d>>

At(r, kind, pc) == req[r].kind = kind /\ req[r].pc = pc

\* ------------------------------------------------------- permission tests
\* PostDetailView.test_func with staff let in to every private post.
PostDetailView_test_func_staff(u, post) ==
    IF post.is_public THEN TRUE
    ELSE is_authenticated(u)
         /\ (u = post.author \/ u \in post.shared_with \/ is_superuser(u) \/ is_staff(u))

\* PostDetailView.test_func
PostDetailView_test_func(u, post) ==
    IF post.is_public THEN TRUE
    ELSE IF is_authenticated(u)
         THEN IF u = post.author THEN TRUE
              ELSE IF u \in post.shared_with THEN TRUE
              ELSE IF is_superuser(u) THEN TRUE
              ELSE FALSE
         ELSE FALSE

\* PostCreateView.test_func that lets superusers in as well.
PostCreateView_test_func_super(u) == is_staff(u) \/ is_superuser(u)

\* PostCreateView.test_func
PostCreateView_test_func(u) == is_staff(u)

\* PostUpdateView.test_func that lets the shared_with users edit.
PostUpdateView_test_func_shared(u, post) ==
    u = post.author \/ is_superuser(u) \/ u \in post.shared_with

\* PostUpdateView.test_func
PostUpdateView_test_func(u, post) == u = post.author \/ is_superuser(u)

\* PostDeleteView.test_func
PostDeleteView_test_func(u, post) == u = post.author \/ is_superuser(u)

\* The permission expression of download_document without shared_with.
download_permitted_unshared(u, post) ==
    post.is_public \/ u = post.author \/ is_superuser(u)

\* The permission expression of download_document.
download_permitted(u, post) ==
    post.is_public \/ u = post.author \/ u \in post.shared_with \/ is_superuser(u)

\* ------------------------------------------------------------- requests
\* A request arrives in a free slot and is dispatched at once; what it leaves
\* in the slot is its response, until the response has been sent.
Free(r) == req[r].pc = "idle"

Request(kind, u, pk) == [Idle EXCEPT !.kind = kind, !.user = u, !.pk = pk]

Answer(r, q, outcome, to) ==
    req' = [req EXCEPT ![r] = [q EXCEPT !.pc = "done", !.outcome = outcome, !.to = to]]
Admit(r, q, pc) == req' = [req EXCEPT ![r] = [q EXCEPT !.pc = pc]]

\* Keys a URL can carry: every id assigned so far and one that is not.
PostKeys == 1..nextPost
DocKeys == 1..nextDoc

\* -------------------------------------------------------- PostCreateView
\* dispatch: LoginRequiredMixin, then UserPassesTestMixin with test_func; both
\* refusals go through the view's handle_no_permission (redirect post-list).
CreateDispatch(r) ==
    /\ Free(r)
    /\ \E u \in Callers :
         LET q == Request("create", u, 0) IN
         IF ~is_authenticated(u) \/ ~PostCreateView_test_func(u)
         THEN Answer(r, q, "Forbidden", "post-list") /\ ops' = ops
         ELSE /\ ops < MaxOps
              /\ nextPost <= MaxPosts
              /\ Admit(r, q, "save")
              /\ ops' = ops + 1
    /\ UNCHANGED <<posts, docs, txPosts, txDocs, lock, nextPost, nextDoc, media, clock>>

\* The row form.save() inserts: the form's fields, author = request.user,
\* date_posted = now (auto_now_add).
NewPost(u, f, now) ==
    [title |-> f.title, content |-> f.content, author |-> u, date_posted |-> now,
     is_public |-> f.is_public, shared_with |-> f.shared_with]

\* form_valid, first statement of the atomic block: self.object = form.save().
CreateSave(r) ==
    /\ At(r, "create", "save")
    /\ lock = 0
    /\ \E f \in PostForm(req[r].user), now \in {clock, clock + 1} \ {0} :
         /\ clock' = now
         /\ txPosts' = Put(posts, nextPost, NewPost(req[r].user, f, clock'))
         /\ req' = [req EXCEPT ![r].pc = "formset", ![r].pk = nextPost, ![r].form = f]
    /\ txDocs' = docs
    /\ lock' = r
    /\ nextPost' = nextPost + 1
    /\ UNCHANGED <<posts, docs, nextDoc, media, ops>>

\* document_formset.save() of n new forms for post pk: one Document row and
\* one stored file each.
SaveNew(D, pk, n) ==
    [d \in DOMAIN D \cup (nextDoc..(nextDoc + n - 1)) |->
        IF d \in DOMAIN D THEN D[d]
        ELSE [post |-> pk, file |-> upload_to(d), description |-> "d1"]]
StoreNew(M, n) ==
    [path \in DOMAIN M \cup {upload_to(d) : d \in nextDoc..(nextDoc + n - 1)} |->
        IF path \in DOMAIN M THEN M[path] ELSE FileBytes(path[2])]

\* form_valid, rest of the atomic block: the formset of the POST holds n valid
\* new forms and, when bad, one more that fails validation.
CreateFormset(r) ==
    /\ At(r, "create", "formset")
    /\ lock = r
    /\ \E n \in 0..MaxNew, bad \in BOOLEAN :
         IF ~bad
         THEN /\ txDocs' = SaveNew(txDocs, req[r].pk, n)
              /\ media' = StoreNew(media, n)
              /\ nextDoc' = nextDoc + n
              /\ req' = [req EXCEPT ![r].pc = "exit", ![r].formset = "valid",
                                    ![r].docset = nextDoc..(nextDoc + n - 1)]
         ELSE /\ req' = [req EXCEPT ![r].pc = "exit", ![r].formset = "invalid"]
              /\ UNCHANGED <<txDocs, media, nextDoc>>
    /\ UNCHANGED <<posts, docs, txPosts, lock, nextPost, clock, ops>>

\* Leaving `with transaction.atomic()`: the block is left by falling out of
\* it or by `return self.form_invalid(form)`; neither raises, so the
\* transaction commits either way.
AtomicExit(r) ==
    /\ req[r].kind \in {"create", "update"}
    /\ req[r].pc = "exit"
    /\ lock = r
    /\ posts' = txPosts
    /\ docs' = txDocs
    /\ txPosts' = posts'
    /\ txDocs' = docs'
    /\ lock' = 0
    /\ IF req[r].formset = "valid"
       THEN Answer(r, req[r], "OK", "post-detail")
       ELSE Answer(r, req[r], "Invalid", "form")
    /\ UNCHANGED <<nextPost, nextDoc, media, clock, ops>>

\* -------------------------------------------------------- PostUpdateView
\* dispatch: LoginRequiredMixin, then test_func (get_object, author or
\* superuser); both refusals redirect to post-detail.
UpdateDispatch(r) ==
    /\ Free(r)
    /\ \E u \in Callers, pk \in PostKeys :
         LET q == Request("update", u, pk) IN
         IF ~is_authenticated(u) THEN Answer(r, q, "Forbidden", "post-detail") /\ ops' = ops
         ELSE IF pk \notin DOMAIN posts THEN Answer(r, q, "NotFound", "404") /\ ops' = ops
         ELSE IF ~PostUpdateView_test_func(u, posts[pk])
              THEN Answer(r, q, "Forbidden", "post-detail") /\ ops' = ops
         ELSE /\ ops < MaxOps
              /\ Admit(r, q, "load")
              /\ ops' = ops + 1
    /\ UNCHANGED <<posts, docs, txPosts, txDocs, lock, nextPost, nextDoc, media, clock>>

\* post(): self.object = self.get_object(), the instance the form is bound to.
UpdateLoad(r) ==
    /\ At(r, "update", "load")
    /\ IF req[r].pk \notin DOMAIN posts
       THEN Answer(r, req[r], "NotFound", "404")
       ELSE req' = [req EXCEPT ![r].pc = "save", ![r].post = posts[req[r].pk],
                               ![r].docset = documents(docs, req[r].pk)]
    /\ UNCHANGED <<posts, docs, txPosts, txDocs, lock, nextPost, nextDoc, media, clock, ops>>

\* form.save(commit=False) and instance.save(): the shared_with choices of
\* the form are never written.
UpdatedPost_no_m2m(instance, f) ==
    [instance EXCEPT !.title = f.title, !.content = f.content, !.is_public = f.is_public]

\* form.save() on a model whose date_posted is auto_now: every save stamps
\* the row anew.
UpdatedPost_auto_now(instance, f) ==
    [instance EXCEPT !.title = f.title, !.content = f.content,
                     !.is_public = f.is_public, !.shared_with = f.shared_with,
                     !.date_posted = clock + 1]

\* The row form.save() writes: the loaded instance with the form's fields.
UpdatedPost(instance, f) ==
    [instance EXCEPT !.title = f.title, !.content = f.content,
                     !.is_public = f.is_public, !.shared_with = f.shared_with]

\* form_valid, first statement of the atomic block: self.object = form.save()
\* (Model.save: UPDATE of the row, INSERT when no row has the key any more).
UpdateSave(r) ==
    /\ At(r, "update", "save")
    /\ lock = 0
    /\ \E f \in PostForm(req[r].user) :
         /\ txPosts' = Put(posts, req[r].pk, UpdatedPost(req[r].post, f))
         /\ req' = [req EXCEPT ![r].pc = "formset", ![r].form = f]
    /\ txDocs' = docs
    /\ lock' = r
    /\ UNCHANGED <<posts, docs, nextPost, nextDoc, media, clock, ops>>

\* The inline formset of the POST: forms for existing documents (keep: left
\* as they are, del: DELETE ticked), n valid new forms and, when bad, a form
\* that fails validation. A kept form whose id is not a document of the post
\* fails validation too; a ticked form whose id is not one is skipped.
FormsetValid(D, pk, keep, bad) == ~bad /\ keep \subseteq documents(D, pk)

UpdateFormset(r) ==
    /\ At(r, "update", "formset")
    /\ lock = r
    /\ \E del \in SUBSET (1..(nextDoc - 1)), n \in 0..MaxNew, bad \in BOOLEAN :
       \E keep \in SUBSET ((1..(nextDoc - 1)) \ del) :
         IF FormsetValid(txDocs, req[r].pk, keep, bad)
         THEN /\ txDocs' = SaveNew(Drop(txDocs, del \cap documents(txDocs, req[r].pk)),
                                   req[r].pk, n)
              /\ media' = StoreNew(media, n)
              /\ nextDoc' = nextDoc + n
              /\ req' = [req EXCEPT ![r].pc = "exit", ![r].formset = "valid",
                           ![r].docset = (req[r].docset \ del) \cup (nextDoc..(nextDoc + n - 1))]
         ELSE /\ req' = [req EXCEPT ![r].pc = "exit", ![r].formset = "invalid"]
              /\ UNCHANGED <<txDocs, media, nextDoc>>
    /\ UNCHANGED <<posts, docs, txPosts, lock, nextPost, clock, ops>>

\* -------------------------------------------------------- PostDeleteView
DeleteDispatch(r) ==
    /\ Free(r)
    /\ \E u \in Callers, pk \in PostKeys :
         LET q == Request("delete", u, pk) IN
         IF ~is_authenticated(u) THEN Answer(r, q, "Forbidden", "post-detail") /\ ops' = ops
         ELSE IF pk \notin DOMAIN posts THEN Answer(r, q, "NotFound", "404") /\ ops' = ops
         ELSE IF ~PostDeleteView_test_func(u, posts[pk])
              THEN Answer(r, q, "Forbidden", "post-detail") /\ ops' = ops
         ELSE /\ ops < MaxOps
              /\ Admit(r, q, "load")
              /\ ops' = ops + 1
    /\ UNCHANGED <<posts, docs, txPosts, txDocs, lock, nextPost, nextDoc, media, clock>>

\* post(): self.object = self.get_object().
DeleteLoad(r) ==
    /\ At(r, "delete", "load")
    /\ IF req[r].pk \notin DOMAIN posts
       THEN Answer(r, req[r], "NotFound", "404")
       ELSE req' = [req EXCEPT ![r].pc = "delete", ![r].post = posts[req[r].pk]]
    /\ UNCHANGED <<posts, docs, txPosts, txDocs, lock, nextPost, nextDoc, media, clock, ops>>

\* No cascade: the Document rows are left behind.
Cascade_nothing(D, pk) == {}

\* on_delete=models.CASCADE of Document.post: the Document rows that go with
\* Post pk.
Cascade(D, pk) == documents(D, pk)

\* form_valid: self.object.delete(), one transaction: the Document rows of
\* the post (on_delete=CASCADE), its shared_with rows and the Post row.
DeleteObject(r) ==
    /\ At(r, "delete", "delete")
    /\ lock = 0
    /\ posts' = Drop(posts, {req[r].pk})
    /\ docs' = Drop(docs, Cascade(docs, req[r].pk))
    /\ txPosts' = posts'
    /\ txDocs' = docs'
    /\ Answer(r, req[r], "OK", "post-list")
    /\ UNCHANGED <<lock, nextPost, nextDoc, media, clock, ops>>

\* -------------------------------------------------------- PostDetailView
\* dispatch: UserPassesTestMixin with test_func (get_object, then the
\* visibility test); handle_no_permission sends an unauthenticated caller to
\* login and an authenticated one to the post list.
\* handle_no_permission that sends every refused caller to the post list.
PostDetailView_handle_no_permission_list(u) == <<"Forbidden", "post-list">>

\* PostDetailView.handle_no_permission
PostDetailView_handle_no_permission(u) ==
    IF ~is_authenticated(u) THEN <<"AuthRequired", "login">>
    ELSE <<"Forbidden", "post-list">>

GetDispatch(r) ==
    /\ Free(r)
    /\ \E u \in Callers, pk \in PostKeys :
         LET q == Request("get", u, pk) IN
         IF pk \notin DOMAIN posts THEN Answer(r, q, "NotFound", "404")
         ELSE IF ~PostDetailView_test_func(u, posts[pk])
              THEN LET resp == PostDetailView_handle_no_permission(u)
                   IN Answer(r, q, resp[1], resp[2])
         ELSE Admit(r, q, "render")
    /\ UNCHANGED <<posts, docs, txPosts, txDocs, lock, nextPost, nextDoc, media, clock, ops>>

\* get(): self.object = self.get_object(), rendered as the response.
GetRender(r) ==
    /\ At(r, "get", "render")
    /\ IF req[r].pk \notin DOMAIN posts
       THEN Answer(r, req[r], "NotFound", "404")
       ELSE Answer(r, [req[r] EXCEPT !.post = posts[req[r].pk]], "OK", "page")
    /\ UNCHANGED <<posts, docs, txPosts, txDocs, lock, nextPost, nextDoc, media, clock, ops>>

\* ---------------------------------------------------------- PostListView
Max(x, y) == IF x >= y THEN x ELSE y

\* Rows of Post LEFT JOIN shared_with that pass the filter
\* Q(is_public=True) | Q(shared_with=user): the number of rows post p yields.
FilterRows(P, u, p) ==
    IF P[p].is_public THEN Max(1, Cardinality(P[p].shared_with))
    ELSE IF u \in P[p].shared_with THEN 1 ELSE 0

\* The queryset without .distinct(): every joined row.
distinct_missing(n) == n

\* .distinct(): one row for each post that has any.
distinct(n) == IF n > 0 THEN 1 ELSE 0

\* get_queryset: how many times post p is in the result for user u.
get_queryset(P, u, p) ==
    IF is_superuser(u) THEN 1 ELSE distinct(FilterRows(P, u, p))

\* ordering = ['-date_posted']: the orders the database may return the rows
\* in (rows of equal date_posted come in any order).
Ordered(P, seq) ==
    \A i, j \in DOMAIN seq : i < j => P[seq[i]].date_posted >= P[seq[j]].date_posted

Total(P, u) ==
    LET f[S \in SUBSET DOMAIN P] ==
            IF S = {} THEN 0
            ELSE LET p == CHOOSE x \in S : TRUE IN get_queryset(P, u, p) + f[S \ {p}]
    IN f[DOMAIN P]

Count(seq, p) == Cardinality({i \in DOMAIN seq : seq[i] = p})

ResultLists(P, u) ==
    { seq \in [1..Total(P, u) -> DOMAIN P] :
        /\ \A p \in DOMAIN P : Count(seq, p) = get_queryset(P, u, p)
        /\ Ordered(P, seq) }

\* dispatch: LoginRequiredMixin (redirect to login), then the list.
List(r) ==
    /\ Free(r)
    /\ \E u \in Callers :
         LET q == Request("list", u, 0) IN
         IF ~is_authenticated(u) THEN Answer(r, q, "AuthRequired", "login")
         ELSE \E seq \in ResultLists(posts, u) :
                Answer(r, [q EXCEPT !.rows = seq], "OK", "page")
    /\ UNCHANGED <<posts, docs, txPosts, txDocs, lock, nextPost, nextDoc, media, clock, ops>>

\* ----------------------------------------------------------- HomePageView
\* The home queryset without its filter: every post.
HomePageView_get_queryset_all(P, p) == 1

\* get_queryset: filter(is_public=True); how many times post p is in it.
HomePageView_get_queryset(P, p) == IF P[p].is_public THEN 1 ELSE 0

\* The result lists of the home page, ordering = ['-date_posted'].
HomeLists(P) ==
    LET shown == {p \in DOMAIN P : HomePageView_get_queryset(P, p) > 0}
    IN { seq \in [1..Cardinality(shown) -> DOMAIN P] :
           /\ \A p \in DOMAIN P : Count(seq, p) = HomePageView_get_queryset(P, p)
           /\ Ordered(P, seq) }

\* The home page: no login is asked for.
Home(r) ==
    /\ Free(r)
    /\ \E u \in Callers, seq \in HomeLists(posts) :
         Answer(r, [Request("home", u, 0) EXCEPT !.rows = seq], "OK", "page")
    /\ UNCHANGED <<posts, docs, txPosts, txDocs, lock, nextPost, nextDoc, media, clock, ops>>

\* ----------------------------------------------------- download_document
\* The checks with the permission test ahead of the login test: a public
\* post's file is served to whoever asks.
download_response_public_first(u, post, found) ==
    IF ~download_permitted(u, post) \/ (~post.is_public /\ ~is_authenticated(u))
    THEN IF ~is_authenticated(u) THEN <<"AuthRequired", "login">>
         ELSE <<"Forbidden", "post-detail">>
    ELSE IF found THEN <<"OK", "file">>
    ELSE <<"FileMissing", "post-detail">>

\* The checks made once the Document row is there, in the order of the code:
\* is_authenticated, the permission expression, os.path.exists(file_path).
download_response(u, post, found) ==
    IF ~is_authenticated(u) THEN <<"AuthRequired", "login">>
    ELSE IF ~download_permitted(u, post) THEN <<"Forbidden", "post-detail">>
    ELSE IF found THEN <<"OK", "file">>
    ELSE <<"FileMissing", "post-detail">>

Download(r) ==
    /\ Free(r)
    /\ \E u \in Callers, pk \in DocKeys :
         LET q == Request("download", u, pk) IN
         IF pk \notin DOMAIN docs THEN Answer(r, q, "NotFound", "404")
         ELSE LET document == docs[pk]
                  post == posts[document.post]
                  found == document.file \in DOMAIN media
                  resp == download_response(u, post, found)
              IN IF resp[1] = "OK"
                 THEN Answer(r, [q EXCEPT !.bytes = media[document.file]], resp[1], resp[2])
                 ELSE Answer(r, q, resp[1], resp[2])
    /\ UNCHANGED <<posts, docs, txPosts, txDocs, lock, nextPost, nextDoc, media, clock, ops>>

\* The file of an upload is gone from MEDIA_ROOT (removed on the file system;
\* no view removes one), while its Document row stays.
MediaLost ==
    /\ ops < MaxOps
    /\ \A r \in Slots : Free(r)
    /\ \E path \in DOMAIN media : media' = Drop(media, {path})
    /\ ops' = ops + 1
    /\ UNCHANGED <<posts, docs, txPosts, txDocs, lock, nextPost, nextDoc, clock, req>>

\* The response is sent and the worker takes the next request.
Close(r) ==
    /\ req[r].pc = "done"
    /\ req' = [req EXCEPT ![r] = Idle]
    /\ UNCHANGED <<posts, docs, txPosts, txDocs, lock, nextPost, nextDoc, media, clock, ops>>

Step(r) ==
    \/ CreateDispatch(r)
    \/ CreateSave(r)
    \/ CreateFormset(r)
    \/ UpdateDispatch(r)
    \/ UpdateLoad(r)
    \/ UpdateSave(r)
    \/ UpdateFormset(r)
    \/ AtomicExit(r)
    \/ DeleteDispatch(r)
    \/ DeleteLoad(r)
    \/ DeleteObject(r)
    \/ GetDispatch(r)
    \/ GetRender(r)
    \/ List(r)
    \/ Home(r)
    \/ Download(r)
    \/ Close(r)

Next == Step(1) \/ MediaLost
Spec == Init /\ [][Next]_vars

\* The concurrent scenario: the requests that arrive are create and update
\* requests for one post, sent from several sessions of the staff user "a".
ConcScope ==
    /\ nextPost <= 2
    /\ \A r \in Slots : req[r].user \in {"a", Anon} /\ (req[r].user = Anon => Free(r))

ConcStep(r) ==
    \/ CreateDispatch(r) /\ ConcScope'
    \/ CreateSave(r) /\ ConcScope'
    \/ CreateFormset(r) /\ ConcScope'
    \/ UpdateDispatch(r) /\ ConcScope'
    \/ UpdateLoad(r) /\ ConcScope'
    \/ UpdateSave(r) /\ ConcScope'
    \/ UpdateFormset(r) /\ ConcScope'
    \/ AtomicExit(r) /\ ConcScope'
    \/ Close(r) /\ ConcScope'

NextConc == \E r \in Slots : ConcStep(r)
SpecConc == Init /\ [][NextConc]_vars

\* A reader beside the writers: create and update requests for one post from
\* sessions of the staff user "a", and get requests from user "b" and from
\* unauthenticated callers.
ReadScope ==
    /\ nextPost <= 2
    /\ \A r \in Slots :
          /\ req[r].kind \in {"create", "update"} => req[r].user = "a"
          /\ req[r].kind = "get" => req[r].user \in {"b", Anon}

ReadStep(r) ==
    \/ CreateDispatch(r) /\ ReadScope'
    \/ CreateSave(r) /\ ReadScope'
    \/ CreateFormset(r) /\ ReadScope'
    \/ UpdateDispatch(r) /\ ReadScope'
    \/ UpdateLoad(r) /\ ReadScope'
    \/ UpdateSave(r) /\ ReadScope'
    \/ UpdateFormset(r) /\ ReadScope'
    \/ AtomicExit(r) /\ ReadScope'
    \/ GetDispatch(r) /\ ReadScope'
    \/ GetRender(r) /\ ReadScope'
    \/ Close(r) /\ ReadScope'

NextRead == \E r \in Slots : ReadStep(r)
SpecRead == Init /\ [][NextRead]_vars

\* ===================================================================
\* Properties
\* ===================================================================
Sent(r, kind) == req[r].kind = kind /\ req[r].pc = "done"

\* The visibility rule as the specification words it.
canView(u, post) ==
    \/ post.is_public
    \/ /\ is_authenticated(u)
       /\ (u = post.author \/ u \in post.shared_with \/ is_superuser(u))

canModify(u, post) == u = post.author \/ is_superuser(u)

\* C1: a create request of a staff user with valid post data and a formset
\* that fails validation leaves no new Post row and no new Document row.
C1_CreateAllOrNothing ==
    \A r \in Slots :
        (Sent(r, "create") /\ req[r].outcome = "Invalid")
            => /\ req[r].pk \notin DOMAIN posts
               /\ documents(docs, req[r].pk) = {}

\* C2: the detail view grants access to an existing post exactly when the
\* post is public, or the caller is authenticated and is its author, one of
\* its shared_with users or a superuser.
Granted(r) == req[r].pc = "render" \/ (req[r].pc = "done" /\ req[r].outcome = "OK")
Denied(r) == req[r].pc = "done" /\ req[r].outcome \in {"AuthRequired", "Forbidden"}

C2_CanView ==
    \A r \in Slots :
        (req[r].kind = "get" /\ req[r].pk \in DOMAIN posts)
            => /\ Granted(r) <=> canView(req[r].user, posts[req[r].pk])
               /\ Denied(r) <=> ~canView(req[r].user, posts[req[r].pk])

\* A private post is refused to a staff user who is neither its author nor
\* one of its shared_with users.
C2_Witness ==
    \E r \in Slots :
        /\ Sent(r, "get") /\ req[r].outcome = "Forbidden"
        /\ req[r].pk \in DOMAIN posts
        /\ is_staff(req[r].user)
        /\ ~posts[req[r].pk].is_public
        /\ posts[req[r].pk].shared_with # {}

\* C3: an update whose post fields are valid and whose formset fails
\* validation leaves the stored post row and its documents as they were.
C3_UpdateAtomic ==
    [][\A r \in Slots :
         (At(r, "update", "exit") /\ req[r].formset = "invalid" /\ req'[r].pc = "done")
            => (posts' = posts /\ docs' = docs)]_vars

\* C4: update and delete are refused (Forbidden, nothing written) to every
\* caller who is neither the author nor a superuser, and let through for the
\* author and for a superuser.
Refusal(r) == Free(r) /\ req'[r].pc = "done" /\ req'[r].outcome = "Forbidden"

C4_Gate ==
    \A r \in Slots :
        req[r].kind \in {"update", "delete"} =>
            /\ (req[r].pc = "done" /\ req[r].outcome = "Forbidden" /\ req[r].pk \in DOMAIN posts)
                  => ~(is_authenticated(req[r].user) /\ canModify(req[r].user, posts[req[r].pk]))
            /\ (req[r].pc = "done" /\ req[r].outcome = "NotFound")
                  => req[r].pk \notin DOMAIN posts
            /\ req[r].pc = "load"
                  => (is_authenticated(req[r].user) /\ canModify(req[r].user, posts[req[r].pk]))
            /\ (req[r].pc \in {"save", "formset", "exit", "delete"}
                \/ (req[r].pc = "done" /\ req[r].outcome \in {"OK", "Invalid"}))
                  => (is_authenticated(req[r].user) /\ canModify(req[r].user, req[r].post))

C4_Frame ==
    \A r \in Slots :
        (Refusal(r) /\ req'[r].kind \in {"update", "delete"})
            => (posts' = posts /\ docs' = docs)

C4_ModifyGated == []C4_Gate /\ [][C4_Frame]_vars

\* A staff user the post is shared with, who is not its author, is refused.
C4_Witness ==
    \E r \in Slots :
        /\ Sent(r, "update") /\ req[r].outcome = "Forbidden"
        /\ req[r].pk \in DOMAIN posts
        /\ is_staff(req[r].user)
        /\ req[r].user \in posts[req[r].pk].shared_with
        /\ req[r].user # posts[req[r].pk].author

\* C5: create is let through exactly for callers with is_staff; every other
\* caller gets Forbidden and nothing is written; the post a create inserts
\* has the caller as its author.
C5_Gate ==
    \A r \in Slots :
        (req[r].kind = "create" /\ ~Free(r)) =>
            /\ (req[r].pc = "done" /\ req[r].outcome = "Forbidden") <=> ~is_staff(req[r].user)
            /\ req[r].pc \in {"formset", "exit"} => txPosts[req[r].pk].author = req[r].user
            /\ (req[r].pc = "done" /\ req[r].outcome = "OK")
                  => /\ req[r].pk \in DOMAIN posts
                     /\ posts[req[r].pk].author = req[r].user

C5_Frame ==
    \A r \in Slots :
        (Refusal(r) /\ req'[r].kind = "create")
            => /\ Cardinality(DOMAIN posts') = Cardinality(DOMAIN posts)
               /\ Cardinality(DOMAIN docs') = Cardinality(DOMAIN docs)

C5_CreateGated == []C5_Gate /\ [][C5_Frame]_vars

\* A superuser who is not staff is refused.
C5_Witness ==
    \E r \in Slots :
        /\ Sent(r, "create") /\ req[r].outcome = "Forbidden"
        /\ is_superuser(req[r].user)
        /\ DOMAIN posts # {}

\* C6: the list view returns every post to a superuser and, to any other
\* authenticated user, exactly the posts that are public or shared with the
\* user; each post once, newest first.
Listed(u) ==
    IF is_superuser(u) THEN DOMAIN posts
    ELSE {p \in DOMAIN posts : posts[p].is_public \/ u \in posts[p].shared_with}

C6_ListContents ==
    \A r \in Slots :
        (Sent(r, "list") /\ req[r].outcome = "OK") =>
            LET rows == req[r].rows IN
            /\ is_authenticated(req[r].user)
            /\ {rows[i] : i \in DOMAIN rows} = Listed(req[r].user)
            /\ \A i, j \in DOMAIN rows : i # j => rows[i] # rows[j]
            /\ \A i, j \in DOMAIN rows :
                  i < j => posts[rows[i]].date_posted >= posts[rows[j]].date_posted

\* A user lists one post, public and shared with them and one more user,
\* while their own private post is left out.
C6_Witness ==
    \E r \in Slots, p, q \in DOMAIN posts :
        /\ Sent(r, "list") /\ req[r].outcome = "OK" /\ ~is_superuser(req[r].user)
        /\ posts[p].is_public /\ req[r].user \in posts[p].shared_with
        /\ Cardinality(posts[p].shared_with) >= 2
        /\ posts[q].author = req[r].user /\ ~posts[q].is_public
        /\ req[r].rows = <<p>>

\* C7: an authenticated user downloading an existing document whose file is
\* in storage gets the stored bytes exactly when the parent post passes the
\* visibility rule, and Forbidden with no bytes otherwise.
C7_Download ==
    \A r \in Slots :
        (/\ Sent(r, "download") /\ is_authenticated(req[r].user)
         /\ req[r].pk \in DOMAIN docs
         /\ docs[req[r].pk].file \in DOMAIN media) =>
            IF canView(req[r].user, posts[docs[req[r].pk].post])
            THEN req[r].outcome = "OK" /\ req[r].bytes = media[docs[req[r].pk].file]
            ELSE req[r].outcome = "Forbidden" /\ req[r].bytes = <<>>

\* A user the private post is shared with downloads its document.
C7_Witness ==
    \E r \in Slots :
        /\ Sent(r, "download") /\ req[r].outcome = "OK"
        /\ req[r].pk \in DOMAIN docs
        /\ LET post == posts[docs[req[r].pk].post] IN
             /\ ~post.is_public
             /\ req[r].user \in post.shared_with
             /\ req[r].user # post.author
        /\ req[r].bytes = FileBytes(req[r].pk)

\* C8: every Document row belongs to a stored Post; deleting a post removes
\* its Document rows in the same step and no other.
C8_Owned == \A d \in DOMAIN docs : docs[d].post \in DOMAIN posts

C8_Delete ==
    \A r \in Slots :
        (At(r, "delete", "delete") /\ req'[r].pc = "done") =>
            /\ req[r].pk \notin DOMAIN posts'
            /\ documents(docs', req[r].pk) = {}
            /\ \A d \in DOMAIN docs :
                  docs[d].post # req[r].pk => (d \in DOMAIN docs' /\ docs'[d] = docs[d])

C8_NoOrphans == []C8_Owned /\ [][C8_Delete]_vars

\* A post with a document has been deleted and the document of the other
\* post is still there.
C8_Witness ==
    \E r \in Slots, d \in DOMAIN docs, gone \in DocIds :
        /\ Sent(r, "delete") /\ req[r].outcome = "OK"
        /\ req[r].pk \notin DOMAIN posts
        /\ upload_to(gone) \in DOMAIN media /\ gone \notin DOMAIN docs
        /\ docs[d].post # req[r].pk

\* What a reader sees of post p: its row and its Document rows.
Visible(P, D, p) ==
    <<IF p \in DOMAIN P THEN P[p] ELSE NoPost, [d \in documents(D, p) |-> D[d]]>>

\* C9: whatever a reader can see of a post changes only from what it was to
\* the whole of what a create or update that passed validation wrote: the
\* post row together with the document set of that operation.
C9_ReaderAtomic ==
    [][\A p \in PostIds :
         (p \in DOMAIN posts' /\ Visible(posts', docs', p) # Visible(posts, docs, p))
            => \E r \in Slots :
                 /\ req[r].kind \in {"create", "update"} /\ req[r].pc = "exit"
                 /\ req[r].pk = p
                 /\ req[r].formset = "valid"
                 /\ Visible(posts', docs', p) = Visible(txPosts, txDocs, p)]_vars

C10_FieldsChange ==
    \A p \in DOMAIN posts' :
        (p \notin DOMAIN posts \/ FormFields(posts'[p]) # FormFields(posts[p]))
            => \E r \in Slots :
                 /\ req[r].pc = "exit" /\ req'[r].pc = "done" /\ req[r].pk = p
                 /\ FormFields(posts'[p]) = req[r].form

C10_FieldsCommit ==
    \A r \in Slots :
        (At(r, "update", "exit") /\ req'[r].pc = "done")
            => /\ req[r].pk \in DOMAIN posts'
               /\ FormFields(posts'[req[r].pk]) = req[r].form

C11_DownloadOrder ==
    \A r \in Slots :
        Sent(r, "download") =>
            LET u == req[r].user
                pk == req[r].pk
            IN IF pk \notin DOMAIN docs
               THEN req[r].outcome = "NotFound" /\ req[r].to = "404" /\ req[r].bytes = <<>>
               ELSE LET post == posts[docs[pk].post]
                        found == docs[pk].file \in DOMAIN media
                    IN /\ req[r].outcome # "NotFound"
                       /\ ~is_authenticated(u)
                             => /\ req[r].outcome = "AuthRequired" /\ req[r].to = "login"
                                /\ req[r].bytes = <<>>
                       /\ (is_authenticated(u) /\ ~canView(u, post))
                             => req[r].outcome = "Forbidden" /\ req[r].bytes = <<>>
                       /\ (is_authenticated(u) /\ canView(u, post) /\ ~found)
                             => /\ req[r].outcome = "FileMissing" /\ req[r].to = "post-detail"
                                /\ req[r].bytes = <<>>
                       /\ req[r].outcome \in {"OK", "FileMissing"}
                             => (is_authenticated(u) /\ canView(u, post))

\* A user the private post is shared with asks for its document after the
\* file has gone from storage.
C11_Witness ==
    \E r \in Slots :
        /\ Sent(r, "download") /\ req[r].outcome = "FileMissing"
        /\ req[r].pk \in DOMAIN docs
        /\ docs[req[r].pk].file \notin DOMAIN media
        /\ ~posts[docs[req[r].pk].post].is_public
        /\ req[r].user \in posts[docs[req[r].pk].post].shared_with

\* C12: a get of a post id with no Post row is answered NotFound whoever
\* asks; a get of a post the caller may not view is answered AuthRequired
\* (redirect to login) exactly when the caller is unauthenticated and
\* Forbidden (redirect to the post list) exactly when the caller is
\* authenticated.
C12_GetDenials ==
    \A r \in Slots :
        Sent(r, "get") =>
            LET u == req[r].user
                pk == req[r].pk
            IN IF pk \notin DOMAIN posts
               THEN req[r].outcome = "NotFound" /\ req[r].to = "404"
               ELSE /\ req[r].outcome # "NotFound"
                    /\ (req[r].outcome = "AuthRequired" /\ req[r].to = "login")
                          <=> (~is_authenticated(u) /\ ~canView(u, posts[pk]))
                    /\ (req[r].outcome = "Forbidden" /\ req[r].to = "post-list")
                          <=> (is_authenticated(u) /\ ~canView(u, posts[pk]))
                    /\ req[r].outcome \in {"AuthRequired", "Forbidden", "OK"}
                    /\ req[r].to \in {"login", "post-list", "page"}

\* An unauthenticated caller asked for a private post and was sent to login.
C12_Witness ==
    \E r \in Slots :
        /\ Sent(r, "get") /\ req[r].outcome = "AuthRequired" /\ req[r].to = "login"
        /\ req[r].user = Anon
        /\ req[r].pk \in DOMAIN posts
        /\ ~posts[req[r].pk].is_public

\* C13: the post a get returns is one the caller may view, judged on the
\* row as it was read for the response.
C13_ReturnedIsViewable ==
    \A r \in Slots :
        (Sent(r, "get") /\ req[r].outcome = "OK")
            => canView(req[r].user, req[r].post)

\* C14: when an update that passed validation commits, the post keeps its
\* author and its date_posted, every other post is as it was, every Document
\* row of another post is as it was, and every Document row added belongs to
\* the updated post; no Document row moves from one post to another.
C14_Frame ==
    \A r \in Slots :
        (At(r, "update", "exit") /\ req[r].formset = "valid" /\ req'[r].pc = "done") =>
            LET pk == req[r].pk IN
            /\ DOMAIN posts' = DOMAIN posts
            /\ pk \in DOMAIN posts
            /\ posts'[pk].author = posts[pk].author
            /\ posts'[pk].date_posted = posts[pk].date_posted
            /\ \A p \in DOMAIN posts \ {pk} : posts'[p] = posts[p]
            /\ \A d \in DOMAIN docs :
                  docs[d].post # pk => (d \in DOMAIN docs' /\ docs'[d] = docs[d])
            /\ \A d \in DOMAIN docs' \ DOMAIN docs : docs'[d].post = pk
            /\ \A d \in DOMAIN docs' \cap DOMAIN docs : docs'[d].post = docs[d].post

C14_UpdateFrame == [][C14_Frame]_vars

\* A superuser who is not the author has updated a post, changing its title
\* and its visibility and adding a document, while another post with a
\* document of its own is stored.
C14_Witness ==
    \E r \in Slots, q \in DOMAIN posts :
        /\ Sent(r, "update") /\ req[r].outcome = "OK"
        /\ is_superuser(req[r].user)
        /\ req[r].pk \in DOMAIN posts /\ q # req[r].pk
        /\ posts[req[r].pk].author # req[r].user
        /\ FormFields(posts[req[r].pk]) = req[r].form
        /\ req[r].post.title # req[r].form.title
        /\ req[r].post.is_public # req[r].form.is_public
        /\ documents(docs, req[r].pk) # {}
        /\ documents(docs, q) # {}

\* C15: every post in a list response is one the user who asked may view,
\* and every post in a home page response is public.
C15_ListNeverLeaks ==
    \A r \in Slots :
        /\ (Sent(r, "list") /\ req[r].outcome = "OK") =>
              \A i \in DOMAIN req[r].rows :
                  /\ req[r].rows[i] \in DOMAIN posts
                  /\ canView(req[r].user, posts[req[r].rows[i]])
        /\ Sent(r, "home") =>
              \A i \in DOMAIN req[r].rows :
                  /\ req[r].rows[i] \in DOMAIN posts
                  /\ posts[req[r].rows[i]].is_public
                  /\ canView(Anon, posts[req[r].rows[i]])

\* A user who is not a superuser lists a private post shared with them while
\* a private post of somebody else, not shared with them, is stored and left
\* out.
C15_Witness ==
    \E r \in Slots, p, q \in DOMAIN posts :
        /\ Sent(r, "list") /\ req[r].outcome = "OK" /\ ~is_superuser(req[r].user)
        /\ ~posts[p].is_public /\ req[r].user \in posts[p].shared_with
        /\ ~posts[q].is_public /\ ~canView(req[r].user, posts[q])
        /\ req[r].rows = <<p>>

====
